---- MODULE Spec2Model ----
(***************************************************************************)
(* Model of puzzleblogserver: the four gRPC handlers of package blogserver *)
(* (CreatePost, GetPost, GetPosts, DeletePost) running concurrently        *)
(* against one MongoDB collection "posts".                                 *)
(*                                                                         *)
(* The sources hold package blogserver twice: the text inside              *)
(* src/server.go (lines 52-273) and src/blogserver/blogserver.go.  The two *)
(* differ in a few places; the variable impl says which text a run         *)
(* executes, and every definition that differs exists once per text.       *)
(*                                                                         *)
(* Every call of the MongoDB driver is one atomic step; the handler code   *)
(* between two driver calls belongs to the step of the call before it.     *)
(* Strings are sequences of one-character strings.                         *)
(***************************************************************************)
EXTENDS Integers, Sequences, FiniteSets, TLC

\* ------------------------------------------------------------- bounds
MaxCreates == 3    \* inserts of one run (acknowledged or still in flight)
MaxPage == 2       \* largest Start / End of a search request

Procs == {1, 2}    \* concurrent request goroutines
BlogIds == {1, 2}
UserIds == {7}
Titles == {<<"a">>, <<"b">>}
Texts == {<<"t">>}
Filters == {<<>>, <<"a">>, <<"b", "%">>, <<"%", "a">>}
Impls == {"server.go", "blogserver.go"}

VARIABLES
    impl,       \* which text of package blogserver runs
    store,      \* collection "posts": a set of documents
    nextOid,    \* the next ObjectID the driver generates (grows with time)
    assigned,   \* per blog: the postIds of its acknowledged inserts, in order
    pc,         \* per goroutine: "idle" or the label / driver call it is at
    req,        \* per goroutine: the request being served
    newPostId,  \* per goroutine: local newPostId of CreatePost
    err,        \* per goroutine: local err after the last driver call
    total,      \* per goroutine: local total of GetPosts
    clients,    \* goroutines holding a connected mongo.Client
    out,        \* what the last step returned to its caller and logged
                \* (NoOut when the last step returned nothing)
    began,      \* history, per goroutine in CreatePost: the inserts its blog
                \* had been acknowledged when the call began
    dups        \* history, per goroutine in CreatePost: the duplicate-key
                \* failures of the call so far (counted up to MaxCreates)

vars == <<impl, store, nextOid, assigned, pc, req, newPostId, err, total,
          clients, out, began, dups>>

Min(a, b) == IF a < b THEN a ELSE b

NoReq == [op |-> "none"]
Nil == [kind |-> "nil"]
NotLogged == [call |-> "none", err |-> "nil"]
NoOut == [op |-> "none", resp |-> Nil, err |-> "nil", logged |-> NotLogged]

\* ------------------------------------------------------------- strings
\* strings.HasPrefix(s[i:], sub), i counted from 0 as in Go
HasAt(s, sub, i) ==
    /\ i + Len(sub) <= Len(s)
    /\ \A k \in 1..Len(sub) : s[i + k] = sub[k]

\* strings.Index: first index of sub in s, -1 when absent
Index(s, sub) ==
    IF \E i \in 0..Len(s) : HasAt(s, sub, i)
    THEN CHOOSE i \in 0..Len(s) :
            HasAt(s, sub, i) /\ \A j \in 0..(i - 1) : ~HasAt(s, sub, j)
    ELSE -1

\* strings.LastIndex: last index of sub in s, -1 when absent
LastIndex(s, sub) ==
    IF \E i \in 0..Len(s) : HasAt(s, sub, i)
    THEN CHOOSE i \in 0..Len(s) :
            HasAt(s, sub, i) /\ \A j \in (i + 1)..Len(s) : ~HasAt(s, sub, j)
    ELSE -1

\* strings.ReplaceAll(s, old, new) for a one-character old
RECURSIVE ReplaceAll(_, _, _)
ReplaceAll(s, old, new) ==
    IF s = <<>> THEN <<>>
    ELSE (IF Head(s) = old THEN new ELSE <<Head(s)>>)
            \o ReplaceAll(Tail(s), old, new)

MatchAny == <<".", "*">>

\* buildRegexFilter of src/server.go: the value of "$regex"
buildRegexFilter(filter) ==
    LET f == ReplaceAll(filter, "%", MatchAny) IN
    (IF Index(f, MatchAny) # 0 THEN MatchAny ELSE <<>>)
        \o f
        \o (IF LastIndex(f, MatchAny) # Len(f) - 2 THEN MatchAny ELSE <<>>)

\* buildFilterRegex of src/blogserver/blogserver.go: the value of "$regex"
buildFilterRegex(filter) ==
    (IF Index(filter, MatchAny) # 0 THEN MatchAny ELSE <<>>)
        \o filter
        \o (IF LastIndex(filter, MatchAny) # Len(filter) - 2
            THEN MatchAny ELSE <<>>)

\* One regex atom against one character: "." matches any character.
CharMatch(c, x) == c = "." \/ c = x

\* re[ri..] matches a prefix of s[si..]; atoms are characters, ".", and a
\* postfix "*" (zero or more of the atom before it).
RECURSIVE MatchHere(_, _, _, _)
MatchHere(re, ri, s, si) ==
    IF ri > Len(re) THEN TRUE
    ELSE IF ri + 1 <= Len(re) /\ re[ri + 1] = "*"
    THEN \/ MatchHere(re, ri + 2, s, si)
         \/ /\ si <= Len(s)
            /\ CharMatch(re[ri], s[si])
            /\ MatchHere(re, ri, s, si + 1)
    ELSE /\ si <= Len(s)
         /\ CharMatch(re[ri], s[si])
         /\ MatchHere(re, ri + 1, s, si + 1)

\* {"$regex": re} on a string field: an unanchored search.
RegexMatch(re, s) == \E i \in 0..Len(s) : MatchHere(re, 1, s, i + 1)

\* ------------------------------------------------------------- bson values
ObjectID(n) == [t |-> "ObjectID", v |-> n]
Int64(n) == [t |-> "int64", v |-> n]

\* extractUint64 of src/blogserver/blogserver.go: 0 for anything but an int
extractUint64(v) == IF v.t \in {"int32", "int64"} THEN v.v ELSE 0

\* mongoclient.ExtractUint64 as src/server.go uses it
ExtractUint64(v) == IF v.t \in {"int32", "int64"} THEN v.v ELSE 0

\* ------------------------------------------------------------- collection
Key(d) == <<d.blogId, d.postId>>

InBlog(blogId) == {d \in store : d.blogId = blogId}

Matching(blogId, postId) ==
    {d \in store : d.blogId = blogId /\ d.postId = postId}

\* A max-id query whose filter lacks the blogId: the maximum of all blogs.
FindOneMax_AnyBlog(blogId) ==
    IF store = {} THEN [err |-> "ErrNoDocuments", doc |-> <<>>]
    ELSE LET d == CHOOSE x \in store : \A y \in store : y.postId <= x.postId
         IN  [err |-> "nil",
              doc |-> << [Key |-> "_id", Value |-> ObjectID(d._id)],
                         [Key |-> "postId", Value |-> Int64(d.postId)] >>]

\* FindOne(filter, optsMaxPostId): sorted by postId descending, projected on
\* postId; the server adds _id in front of every projection.
FindOneMax(blogId) ==
    IF InBlog(blogId) = {} THEN [err |-> "ErrNoDocuments", doc |-> <<>>]
    ELSE LET d == CHOOSE x \in InBlog(blogId) :
                    \A y \in InBlog(blogId) : y.postId <= x.postId
         IN  [err |-> "nil",
              doc |-> << [Key |-> "_id", Value |-> ObjectID(d._id)],
                         [Key |-> "postId", Value |-> Int64(d.postId)] >>]

\* The unique index on (blogId, postId) the handlers rely on.
DuplicateKey(blogId, postId) == Matching(blogId, postId) # {}

\* The documents a filter document selects: blogId, and the title regex when
\* the filter document has one (re = <<>> stands for "no title entry").
Selected(blogId, re) ==
    {d \in store : d.blogId = blogId /\ (re = <<>> \/ RegexMatch(re, d.title))}

\* SetSort({postId: -1}): the documents by postId descending
RECURSIVE SortDesc(_)
SortDesc(S) ==
    IF S = {} THEN <<>>
    ELSE LET d == CHOOSE x \in S :
                    \A y \in S : \/ y.postId < x.postId
                                 \/ (y.postId = x.postId /\ y._id >= x._id)
         IN  <<d>> \o SortDesc(S \ {d})

Drop(s, n) == IF n >= Len(s) THEN <<>> ELSE SubSeq(s, n + 1, Len(s))
Take(s, n) == IF n >= Len(s) THEN s ELSE SubSeq(s, 1, n)

\* SetSkip(skip).SetLimit(limit) on a cursor: a limit of 0 is no limit, a
\* negative limit is its absolute value.
Paginate(s, skip, limit) ==
    LET rest == Drop(s, skip) IN
    IF limit = 0 THEN rest
    ELSE Take(rest, IF limit < 0 THEN -limit ELSE limit)

\* ------------------------------------------------------------- requests
CreateRequests ==
    [op : {"CreatePost"}, BlogId : BlogIds, UserId : UserIds,
     Title : Titles, Text : Texts]

IdRequests(op) == [op : {op}, BlogId : BlogIds, PostId : 1..MaxCreates]

SearchRequests ==
    [op : {"GetPosts"}, BlogId : BlogIds, Filter : Filters,
     Start : 0..MaxPage, End : 0..MaxPage]

\* ------------------------------------------------------------- responses
\* convertToContent: one stored document as a pb.Content
convertToContent(post) ==
    [kind |-> "Content",
     PostId |-> ExtractUint64(Int64(post.postId)),
     UserId |-> ExtractUint64(Int64(post.userId)),
     Title |-> post.title, Text |-> post.text, CreatedAt |-> post._id]

\* mongoclient.ConvertSlice(results, convertToContent) of src/server.go
ConvertSlice(results) ==
    [i \in 1..Len(results) |-> convertToContent(results[i])]

\* convertToContents of src/blogserver/blogserver.go: an empty slice with
\* the capacity of posts
convertToContents(posts) == <<>>

\* ------------------------------------------------------------- returning
\* A handler returns: the deferred Disconnect runs, the locals die.
Return(p, resp, e, logged) ==
    /\ out' = [op |-> req[p].op, resp |-> resp, err |-> e, logged |-> logged]
    /\ pc' = [pc EXCEPT ![p] = "idle"]
    /\ req' = [req EXCEPT ![p] = NoReq]
    /\ newPostId' = [newPostId EXCEPT ![p] = 0]
    /\ err' = [err EXCEPT ![p] = "nil"]
    /\ total' = [total EXCEPT ![p] = 0]
    /\ clients' = clients \ {p}
    /\ began' = [began EXCEPT ![p] = 0]
    /\ dups' = [dups EXCEPT ![p] = 0]

\* An error path that returns without the deferred Disconnect.
ReturnInternal_KeepsClient(p, call, e) ==
    /\ out' = [op |-> req[p].op, resp |-> Nil, err |-> "errInternal",
               logged |-> [call |-> call, err |-> e]]
    /\ pc' = [pc EXCEPT ![p] = "idle"]
    /\ req' = [req EXCEPT ![p] = NoReq]
    /\ newPostId' = [newPostId EXCEPT ![p] = 0]
    /\ err' = [err EXCEPT ![p] = "nil"]
    /\ total' = [total EXCEPT ![p] = 0]
    /\ began' = [began EXCEPT ![p] = 0]
    /\ dups' = [dups EXCEPT ![p] = 0]
    /\ UNCHANGED clients

\* logger.Error(mongoCallMsg, zap.Error(err)); return nil, errInternal
ReturnInternal(p, call, e) ==
    Return(p, Nil, "errInternal", [call |-> call, err |-> e])

\* The storage failures that are neither "no documents" nor "duplicate key".
Faults == {"Other"}

\* mongo.Connect at the head of every handler: the client, or errInternal
\* with nothing to disconnect.  f: the failures the storage may show.
Connect(p, request, first, f) ==
    /\ pc[p] = "idle"
    /\ \/ /\ pc' = [pc EXCEPT ![p] = first]
          /\ req' = [req EXCEPT ![p] = request]
          /\ clients' = clients \cup {p}
          /\ out' = NoOut
       \/ /\ "Other" \in f
          /\ out' = [op |-> request.op, resp |-> Nil, err |-> "errInternal",
                     logged |-> [call |-> "Connect", err |-> "Other"]]
          /\ UNCHANGED <<pc, req, clients>>

\* ------------------------------------------------------------- CreatePost
\* newPostId from the document FindOne decoded (Go indexes from 0).  The
\* uint64 sum cannot wrap here: postIds never exceed the number of inserts.
NewPostId_server(result) == ExtractUint64(result[2].Value) + 1

NewPostId_blogserver(result) == extractUint64(result[1].Value) + 1

NewPostIdFrom(result) ==
    IF impl = "server.go" THEN NewPostId_server(result)
    ELSE NewPostId_blogserver(result)

\* the pb.Response of a successful CreatePost
CreateResponse_server(id) == [kind |-> "Response", Success |-> TRUE, Id |-> id]

CreateResponse_blogserver(id) ==
    [kind |-> "Response", Success |-> TRUE, Id |-> 0]

CreateResponse(id) ==
    IF impl = "server.go" THEN CreateResponse_server(id)
    ELSE CreateResponse_blogserver(id)

\* Inserts acknowledged so far plus the CreatePost calls in flight: what a
\* run is bounded by.
CreatesBegun ==
    (nextOid - 1) + Cardinality({q \in Procs : req[q].op = "CreatePost"})

\* Connect, build filter and post, newPostId := 1
CreatePost(p, f) ==
    /\ CreatesBegun < MaxCreates
    /\ \E request \in CreateRequests :
          Connect(p, request, "GeneratePostIdStep", f)
    /\ newPostId' = [newPostId EXCEPT ![p] = IF pc'[p] = "idle" THEN 0 ELSE 1]
    /\ began' = [began EXCEPT ![p] = IF pc'[p] = "idle" THEN 0
                                     ELSE Len(assigned[req'[p].BlogId])]
    /\ UNCHANGED <<impl, store, nextOid, assigned, err, total, dups>>

\* What the handler does with the outcome of the max-id FindOne.
AfterFindOneMax(p, found) ==
    IF found.err \notin {"nil", "ErrNoDocuments"}
    THEN ReturnInternal(p, "FindOne", found.err)
    ELSE /\ pc' = [pc EXCEPT ![p] = "CreatePostStep"]
         /\ err' = [err EXCEPT ![p] = found.err]
         /\ IF found.err = "ErrNoDocuments"
            THEN UNCHANGED newPostId
            ELSE newPostId' = [newPostId EXCEPT
                                 ![p] = NewPostIdFrom(found.doc)]
         /\ out' = NoOut
         /\ UNCHANGED <<req, total, clients, began, dups>>

\* GeneratePostIdStep: the max-id query and the lines up to CreatePostStep
GeneratePostIdStep(p, f) ==
    /\ pc[p] = "GeneratePostIdStep"
    /\ \E found \in {FindOneMax(req[p].BlogId)}
                       \cup {[err |-> e, doc |-> <<>>] : e \in f} :
          AfterFindOneMax(p, found)
    /\ UNCHANGED <<impl, store, nextOid, assigned>>

\* A collection without the unique index: every insert is accepted.
InsertOne_NoUniqueIndex(blogId, postId) == "nil"

\* The outcome of InsertOne for the candidate: the unique index decides.
InsertOne(blogId, postId) ==
    IF DuplicateKey(blogId, postId) THEN "DuplicateKey" ELSE "nil"

\* A retry that takes the next number instead of querying again.
AfterInsertOne_IncrementAndRetry(p, e) ==
    IF e = "nil" THEN Return(p, CreateResponse(newPostId[p]), "nil", NotLogged)
    ELSE IF e = "DuplicateKey"
    THEN /\ newPostId' = [newPostId EXCEPT ![p] = @ + 1]
         /\ err' = [err EXCEPT ![p] = "DuplicateKey"]
         /\ out' = NoOut
         /\ dups' = [dups EXCEPT ![p] = Min(@ + 1, MaxCreates)]
         /\ UNCHANGED <<pc, req, total, clients, began>>
    ELSE ReturnInternal(p, "InsertOne", e)

\* A handler that treats the duplicate key like any other failure.
AfterInsertOne_SurfaceDuplicate(p, e) ==
    IF e = "nil" THEN Return(p, CreateResponse(newPostId[p]), "nil", NotLogged)
    ELSE ReturnInternal(p, "InsertOne", e)

\* A handler that tries again after any failed insert.
AfterInsertOne_RetryAnyFailure(p, e) ==
    IF e = "nil" THEN Return(p, CreateResponse(newPostId[p]), "nil", NotLogged)
    ELSE /\ pc' = [pc EXCEPT ![p] = "GeneratePostIdStep"]
         /\ err' = [err EXCEPT ![p] = e]
         /\ out' = NoOut
         /\ dups' = [dups EXCEPT ![p] = Min(@ + 1, MaxCreates)]
         /\ UNCHANGED <<req, newPostId, total, clients, began>>

\* What the handler does with the outcome of InsertOne.
AfterInsertOne(p, e) ==
    IF e = "nil" THEN Return(p, CreateResponse(newPostId[p]), "nil", NotLogged)
    ELSE IF e = "DuplicateKey"
    THEN /\ pc' = [pc EXCEPT ![p] = "GeneratePostIdStep"]
         /\ err' = [err EXCEPT ![p] = "DuplicateKey"]
         /\ out' = NoOut
         /\ dups' = [dups EXCEPT ![p] = Min(@ + 1, MaxCreates)]
         /\ UNCHANGED <<req, newPostId, total, clients, began>>
    ELSE ReturnInternal(p, "InsertOne", e)

\* CreatePostStep: post[postIdKey] = newPostId, InsertOne, and the return
CreatePostStep(p, f) ==
    /\ pc[p] = "CreatePostStep"
    /\ \E e \in {InsertOne(req[p].BlogId, newPostId[p])} \cup f :
          /\ AfterInsertOne(p, e)
          /\ IF e = "nil"
             THEN /\ store' = store \cup
                        {[_id |-> nextOid, blogId |-> req[p].BlogId,
                          postId |-> newPostId[p], userId |-> req[p].UserId,
                          title |-> req[p].Title, text |-> req[p].Text]}
                  /\ nextOid' = nextOid + 1
                  /\ assigned' = [assigned EXCEPT ![req[p].BlogId] =
                                        Append(@, newPostId[p])]
             ELSE UNCHANGED <<store, nextOid, assigned>>
    /\ UNCHANGED impl

\* ------------------------------------------------------------- GetPost
GetPost(p, f) ==
    /\ \E request \in IdRequests("GetPost") :
          Connect(p, request, "GetPost", f)
    /\ UNCHANGED <<impl, store, nextOid, assigned, newPostId, err,
                   total, began, dups>>

\* FindOne by the compound key: a matching document, or ErrNoDocuments
FindOne(blogId, postId) ==
    IF Matching(blogId, postId) = {}
    THEN {[err |-> "ErrNoDocuments", doc |-> <<>>]}
    ELSE {[err |-> "nil", doc |-> d] : d \in Matching(blogId, postId)}

\* A handler that does not tell ErrNoDocuments from the other failures.
AfterFindOne_NotFoundIsInternal(p, found) ==
    IF found.err = "nil"
    THEN Return(p, convertToContent(found.doc), "nil", NotLogged)
    ELSE ReturnInternal(p, "FindOne", found.err)

\* What the handler does with the outcome of FindOne(...).Decode.
AfterFindOne(p, found) ==
    IF found.err = "nil"
    THEN Return(p, convertToContent(found.doc), "nil", NotLogged)
    ELSE IF found.err = "ErrNoDocuments"
    THEN Return(p, Nil, "errNoPost", NotLogged)
    ELSE ReturnInternal(p, "FindOne", found.err)

\* FindOne by the compound key, Decode, and the return
GetPostFindOne(p, f) ==
    /\ pc[p] = "GetPost"
    /\ \E found \in FindOne(req[p].BlogId, req[p].PostId)
                       \cup {[err |-> e, doc |-> <<>>] : e \in f} :
          AfterFindOne(p, found)
    /\ UNCHANGED <<impl, store, nextOid, assigned>>

\* ------------------------------------------------------------- GetPosts
\* the title entry of filters in src/server.go (<<>>: none)
TitleFilter_server(request) ==
    IF request.Filter # <<>> THEN buildRegexFilter(request.Filter) ELSE <<>>

\* the title entry of filters in src/blogserver/blogserver.go (<<>>: none)
TitleFilter_blogserver(request) ==
    IF request.Filter # <<>> THEN buildFilterRegex(request.Filter) ELSE <<>>

\* CountDocuments(ctx, filters) in src/server.go: filters is complete
CountDocuments_server(request) ==
    Cardinality(Selected(request.BlogId, TitleFilter_server(request)))

\* CountDocuments(ctx, filters) in src/blogserver/blogserver.go: the title
\* entry is appended to filters only after the count
CountDocuments_blogserver(request) ==
    Cardinality(Selected(request.BlogId, <<>>))

CountDocuments(request) ==
    IF impl = "server.go" THEN CountDocuments_server(request)
    ELSE CountDocuments_blogserver(request)

\* Find(ctx, filters, paginate), cursor.All and ConvertSlice in src/server.go
List_server(request) ==
    ConvertSlice(
        Paginate(SortDesc(Selected(request.BlogId, TitleFilter_server(request))),
                 request.Start, request.End - request.Start))

\* Find(ctx, filters), cursor.All and convertToContents in
\* src/blogserver/blogserver.go: paginate is built and not passed
List_blogserver(request) ==
    convertToContents(
        SortDesc(Selected(request.BlogId, TitleFilter_blogserver(request))))

List(request) ==
    IF impl = "server.go" THEN List_server(request)
    ELSE List_blogserver(request)

GetPosts(p, f) ==
    /\ \E request \in SearchRequests :
          Connect(p, request, "CountDocuments", f)
    /\ UNCHANGED <<impl, store, nextOid, assigned, newPostId, err,
                   total, began, dups>>

\* CountDocuments and the lines up to Find
GetPostsCount(p, f) ==
    /\ pc[p] = "CountDocuments"
    /\ \/ /\ total' = [total EXCEPT ![p] = CountDocuments(req[p])]
          /\ pc' = [pc EXCEPT ![p] = "Find"]
          /\ out' = NoOut
          /\ UNCHANGED <<req, newPostId, err, clients, began, dups>>
       \/ \E e \in f : ReturnInternal(p, "CountDocuments", e)
    /\ UNCHANGED <<impl, store, nextOid, assigned>>

\* Find, cursor.All, and the return
GetPostsFind(p, f) ==
    /\ pc[p] = "Find"
    /\ \/ Return(p, [kind |-> "Contents", List |-> List(req[p]),
                     Total |-> total[p]], "nil", NotLogged)
       \/ \E e \in f : ReturnInternal(p, "Find", e)
    /\ UNCHANGED <<impl, store, nextOid, assigned>>

\* ------------------------------------------------------------- DeletePost
DeletePost(p, f) ==
    /\ \E request \in IdRequests("DeletePost") :
          Connect(p, request, "DeleteMany", f)
    /\ UNCHANGED <<impl, store, nextOid, assigned, newPostId, err,
                   total, began, dups>>

\* A delete that blanks the text of the posts instead of removing them.
DeleteMany_Tombstone(blogId, postId) ==
    {IF d \in Matching(blogId, postId) THEN [d EXCEPT !.text = <<>>] ELSE d :
        d \in store}

\* A delete whose filter lacks the postId: it removes the whole blog.
DeleteMany_WholeBlog(blogId, postId) == store \ InBlog(blogId)

\* the collection after DeleteMany by the compound key
DeleteMany(blogId, postId) == store \ Matching(blogId, postId)

\* A handler that reports a delete that removed nothing as "no post".
AfterDeleteMany_NothingDeletedIsError(p, e) ==
    IF e # "nil" /\ e # "ErrNoDocuments"
    THEN ReturnInternal(p, "DeleteMany", e)
    ELSE IF Matching(req[p].BlogId, req[p].PostId) = {}
    THEN Return(p, Nil, "errNoPost", NotLogged)
    ELSE Return(p, [kind |-> "Response", Success |-> TRUE, Id |-> 0], "nil",
                NotLogged)

\* What the handler does with the error of DeleteMany.
AfterDeleteMany(p, e) ==
    IF e # "nil" /\ e # "ErrNoDocuments"
    THEN ReturnInternal(p, "DeleteMany", e)
    ELSE Return(p, [kind |-> "Response", Success |-> TRUE, Id |-> 0], "nil",
                NotLogged)

\* DeleteMany and the return
DeletePostDeleteMany(p, f) ==
    /\ pc[p] = "DeleteMany"
    /\ \E e \in {"nil"} \cup f :
          /\ AfterDeleteMany(p, e)
          /\ store' = IF e = "nil"
                      THEN DeleteMany(req[p].BlogId, req[p].PostId)
                      ELSE store
    /\ UNCHANGED <<impl, nextOid, assigned>>

\* ------------------------------------------------------------- the system
Init ==
    /\ impl \in Impls
    /\ store = {}
    /\ nextOid = 1
    /\ assigned = [b \in BlogIds |-> <<>>]
    /\ pc = [p \in Procs |-> "idle"]
    /\ req = [p \in Procs |-> NoReq]
    /\ newPostId = [p \in Procs |-> 0]
    /\ err = [p \in Procs |-> "nil"]
    /\ total = [p \in Procs |-> 0]
    /\ clients = {}
    /\ out = NoOut
    /\ began = [p \in Procs |-> 0]
    /\ dups = [p \in Procs |-> 0]

\* Two goroutines serving CreatePost and DeletePost requests concurrently.
Next ==
    \E p \in Procs :
        \/ CreatePost(p, Faults)
        \/ GeneratePostIdStep(p, Faults)
        \/ CreatePostStep(p, Faults)
        \/ DeletePost(p, Faults)
        \/ DeletePostDeleteMany(p, Faults)

Spec == Init /\ [][Next]_vars

\* One goroutine serving requests to all four handlers, one after the other.
SerialNext ==
    \/ CreatePost(1, Faults)
    \/ GeneratePostIdStep(1, Faults)
    \/ CreatePostStep(1, Faults)
    \/ GetPost(1, Faults)
    \/ GetPostFindOne(1, Faults)
    \/ GetPosts(1, Faults)
    \/ GetPostsCount(1, Faults)
    \/ GetPostsFind(1, Faults)
    \/ DeletePost(1, Faults)
    \/ DeletePostDeleteMany(1, Faults)

SerialSpec == Init /\ [][SerialNext]_vars

\* The concurrent CreatePost and DeletePost calls of Spec, and goroutine 1
\* serving GetPost requests as well.
GetNext ==
    \/ Next
    \/ GetPost(1, Faults)
    \/ GetPostFindOne(1, Faults)

GetSpec == Init /\ [][GetNext]_vars

\* Concurrent CreatePost calls alone, on a storage that may fail.
CreateNext ==
    \E p \in Procs :
        \/ CreatePost(p, Faults)
        \/ GeneratePostIdStep(p, Faults)
        \/ CreatePostStep(p, Faults)

CreateSpec == Init /\ [][CreateNext]_vars

\* Concurrent CreatePost calls alone, a storage that shows no failure but the
\* duplicate key, and a scheduler that lets every goroutine in a handler run.
LiveNext ==
    \E p \in Procs :
        \/ CreatePost(p, {})
        \/ GeneratePostIdStep(p, {})
        \/ CreatePostStep(p, {})

LiveSpec ==
    /\ Init
    /\ [][LiveNext]_vars
    /\ \A p \in Procs :
          WF_vars(GeneratePostIdStep(p, {}) \/ CreatePostStep(p, {}))

\* ------------------------------------------------------------- properties
StrictlyIncreasing(ids) ==
    \A i, j \in 1..Len(ids) : i < j => ids[i] < ids[j]

\* Every post ever inserted into the blog is still stored: nothing of the
\* blog has been deleted.
NoPostDeleted(blogId) == Cardinality(InBlog(blogId)) = Len(assigned[blogId])

\* C1 as stated: in every run, the postIds assigned to the successful
\* CreatePost calls of one blog are strictly increasing in the order of the
\* inserts, so no two calls are assigned the same postId.
C1_AssignedStrictlyIncreasing ==
    \A b \in BlogIds : StrictlyIncreasing(assigned[b])

\* C1 amended: as long as no post of the blog has been deleted, the postIds
\* assigned to the successful CreatePost calls of the blog are strictly
\* increasing in the order of the inserts, concurrent calls included.
C1_IncreasingWhileNothingDeleted ==
    \A b \in BlogIds :
        NoPostDeleted(b) => StrictlyIncreasing(assigned[b])

\* Two CreatePost calls of one blog have succeeded, one after the other, and
\* nothing of the blog was deleted.
C1_Witness ==
    \E b \in BlogIds :
        /\ NoPostDeleted(b)
        /\ Len(assigned[b]) >= 2
        /\ \E d, e \in InBlog(b) : d._id < e._id /\ d.postId < e.postId

\* No two stored posts share (blogId, postId).
UniqueKeys == \A d, e \in store : Key(d) = Key(e) => d = e

\* The step acknowledges an insert into blog b.
Inserted(b) == assigned'[b] # assigned[b]

\* C2: in every reachable state no two stored posts share the same
\* (blogId, postId), and a step that assigns a postId in a blog finds no
\* stored post of that blog with that postId.
C2_UniqueCompoundKey ==
    /\ []UniqueKeys
    /\ [][\A b \in BlogIds :
            Inserted(b) =>
                Matching(b, assigned'[b][Len(assigned'[b])]) = {}]_vars

\* A postId has been assigned twice in one blog (the first post was deleted
\* in between) and is stored once, beside another post of the blog.
C2_Witness ==
    \E b \in BlogIds :
        /\ \E i, j \in 1..Len(assigned[b]) :
              /\ i < j
              /\ assigned[b][i] = assigned[b][j]
              /\ Cardinality(Matching(b, assigned[b][i])) = 1
        /\ Cardinality(InBlog(b)) >= 2

\* The largest postId stored for the blog (which must hold a post).
MaxPostId(blogId) ==
    CHOOSE m \in {d.postId : d \in InBlog(blogId)} :
        \A d \in InBlog(blogId) : d.postId <= m

\* Goroutine p makes its max-id query in this step and goes on to insert.
QueriesMaxId(p) ==
    pc[p] = "GeneratePostIdStep" /\ pc'[p] = "CreatePostStep"

\* C3, of the handler in src/server.go: the candidate a max-id query leaves
\* for the insert attempt that follows it, first attempt or retry, is 1 when
\* the query finds no post of the blog and (the maximum postId found) + 1
\* otherwise.
C3_CandidateFromQuery ==
    [][\A p \in Procs :
          (impl = "server.go" /\ QueriesMaxId(p)) =>
              newPostId'[p] = IF InBlog(req[p].BlogId) = {} THEN 1
                              ELSE MaxPostId(req[p].BlogId) + 1]_vars

\* Goroutine p takes a step of its handler.
Stepped(p) ==
    <<pc[p], req[p], newPostId[p], err[p], total[p]>>
        # <<pc'[p], req'[p], newPostId'[p], err'[p], total'[p]>>

\* C4: within one CreatePost call an insert attempt is reached only by a
\* max-id query; every insert attempt leaves CreatePostStep (the call
\* returns or goes back to the query), and a duplicate-key failure sends the
\* call to the max-id query with its candidate unchanged.
C4_QueryBeforeEveryInsert ==
    [][\A p \in Procs :
          /\ (Stepped(p) /\ pc'[p] = "CreatePostStep") =>
                /\ pc[p] = "GeneratePostIdStep"
                /\ err'[p] \in {"nil", "ErrNoDocuments"}
          /\ (Stepped(p) /\ pc[p] = "CreatePostStep") =>
                pc'[p] \in {"idle", "GeneratePostIdStep"}
          /\ (Stepped(p) /\ err'[p] = "DuplicateKey") =>
                /\ pc[p] = "CreatePostStep"
                /\ pc'[p] = "GeneratePostIdStep"
                /\ newPostId'[p] = newPostId[p]]_vars

\* A call whose insert of candidate N was refused as a duplicate is at the
\* max-id query again, N being stored by another call.
C4_Witness ==
    \E p \in Procs :
        /\ pc[p] = "GeneratePostIdStep"
        /\ err[p] = "DuplicateKey"
        /\ DuplicateKey(req[p].BlogId, newPostId[p])

\* C5: whatever CreatePost returns as an error is errInternal for a failed
\* Connect, max-id query or insert whose failure is not the duplicate key;
\* an insert attempt on a stored key either retries, returning nothing, or
\* fails for another reason.
C5_DuplicateKeyNeverSurfaces ==
    /\ [](out.op = "CreatePost" /\ out.err # "nil" =>
            /\ out.err = "errInternal"
            /\ out.logged.err = "Other"
            /\ out.logged.call \in {"Connect", "FindOne", "InsertOne"})
    /\ [][\A p \in Procs :
            (/\ Stepped(p)
             /\ pc[p] = "CreatePostStep"
             /\ DuplicateKey(req[p].BlogId, newPostId[p])) =>
                \/ pc'[p] = "GeneratePostIdStep" /\ out' = NoOut
                \/ /\ out'.err = "errInternal"
                   /\ out'.logged = [call |-> "InsertOne", err |-> "Other"]]_vars

\* An insert has just failed with the duplicate key: the step returned
\* nothing and the call still holds its client.
C5_Witness ==
    \E p \in Procs :
        err[p] = "DuplicateKey" /\ out = NoOut /\ p \in clients

\* C6: with concurrent CreatePost calls alone, fair scheduling and no storage
\* failure but the duplicate key, every CreatePost call returns.
C6_EveryCreateReturns ==
    \A p \in Procs : (pc[p] # "idle") ~> (pc[p] = "idle")

\* C7: a successful CreatePost returns Success with the postId of the one
\* document the call inserted.
C7_ReturnsAssignedPostId ==
    [][\A p \in Procs :
          (pc[p] = "CreatePostStep" /\ pc'[p] = "idle" /\ out'.err = "nil") =>
              /\ out'.resp.kind = "Response"
              /\ out'.resp.Success
              /\ \E d \in store' \ store :
                    /\ store' = store \cup {d}
                    /\ out'.resp.Id = d.postId]_vars

\* The stored posts with the compound key of request r.
Stored(r) == {d \in store : d.blogId = r.BlogId /\ d.postId = r.PostId}

\* C8: GetPost returns errNoPost only for a key no stored post has and with
\* no storage failure; for such a key it returns errNoPost unless the storage
\* failed; it returns errInternal exactly when Connect or FindOne failed for
\* another reason.
C8_NotFoundIsNotInternal ==
    /\ [](out.op = "GetPost" =>
            /\ out.err = "errInternal" <=> out.logged.err = "Other"
            /\ out.logged.err \in {"nil", "Other"}
            /\ out.logged.call \in {"none", "Connect", "FindOne"})
    /\ [][\A p \in Procs :
            (pc[p] = "GetPost" /\ pc'[p] = "idle") =>
                /\ out'.err = "errNoPost" => Stored(req[p]) = {}
                /\ Stored(req[p]) = {} =>
                        out'.err \in {"errNoPost", "errInternal"}
                /\ Stored(req[p]) # {} =>
                        out'.err \in {"nil", "errInternal"}]_vars

\* GetPost has returned errNoPost for a key that is not stored, while other
\* posts are.
C8_Witness ==
    out.op = "GetPost" /\ out.err = "errNoPost" /\ store # {}

\* C9: DeletePost fails only when the storage fails; otherwise it returns
\* success whether or not a post has the key, and leaves exactly the posts
\* with another key, so that a second delete of the key finds nothing,
\* returns success again and changes nothing.
C9_DeleteIdempotent ==
    [][\A p \in Procs :
          (pc[p] = "DeleteMany" /\ pc'[p] = "idle") =>
              /\ out'.err # "nil" =>
                    /\ out'.err = "errInternal"
                    /\ out'.logged = [call |-> "DeleteMany", err |-> "Other"]
                    /\ store' = store
              /\ out'.err = "nil" =>
                    /\ out'.resp.kind = "Response" /\ out'.resp.Success
                    /\ store' = {d \in store : Key(d) #
                                    <<req[p].BlogId, req[p].PostId>>}
                    /\ Stored(req[p]) = {} => store' = store]_vars

\* A DeletePost has just returned success, and another DeletePost, of a key
\* that was assigned and is no longer stored, is about to run.
C9_Witness ==
    /\ out.op = "DeletePost" /\ out.err = "nil"
    /\ \E q \in Procs :
          /\ pc[q] = "DeleteMany"
          /\ Stored(req[q]) = {}
          /\ \E i \in 1..Len(assigned[req[q].BlogId]) :
                assigned[req[q].BlogId][i] = req[q].PostId

\* pattern[pi..], with "%" for any sequence of characters, matches a prefix
\* of title[ti..].
RECURSIVE LikeHere(_, _, _, _)
LikeHere(pattern, pi, title, ti) ==
    IF pi > Len(pattern) THEN TRUE
    ELSE IF pattern[pi] = "%"
    THEN \E k \in ti..(Len(title) + 1) : LikeHere(pattern, pi + 1, title, k)
    ELSE /\ ti <= Len(title)
         /\ pattern[pi] = title[ti]
         /\ LikeHere(pattern, pi + 1, title, ti + 1)

\* The title holds a match of the wildcard pattern.
LikeMatch(pattern, title) ==
    \E i \in 1..(Len(title) + 1) : LikeHere(pattern, 1, title, i)

\* The stored posts request r asks for: those of its blog whose title matches
\* its filter, when it has one.
Wanted(r) ==
    {d \in store : /\ d.blogId = r.BlogId
                   /\ (r.Filter = <<>> \/ LikeMatch(r.Filter, d.title))}

\* C10: the total GetPosts returns is the number of stored posts of the blog
\* that match the filter, when one is given (whatever start and end are).
C10_TotalCountsMatches ==
    [][\A p \in Procs :
          (pc[p] = "Find" /\ pc'[p] = "idle" /\ out'.err = "nil") =>
              out'.resp.Total = Cardinality(Wanted(req[p]))]_vars

\* The number of wanted posts that come before d when the wanted posts are
\* put by postId descending.
Rank(r, d) == Cardinality({e \in Wanted(r) : e.postId > d.postId})

\* The response entity stands for the stored post.
EntityOf(c, d) ==
    /\ c.PostId = d.postId
    /\ c.UserId = d.userId
    /\ c.Title = d.title
    /\ c.Text = d.text

\* list is the page [Start, End) of the posts request r asks for, by postId
\* descending, one entity per post of the page.
IsPage(list, r) ==
    /\ Len(list) = Min(r.End - r.Start,
                       IF Cardinality(Wanted(r)) > r.Start
                       THEN Cardinality(Wanted(r)) - r.Start ELSE 0)
    /\ \A i \in 1..Len(list) :
          \E d \in Wanted(r) :
              Rank(r, d) = r.Start + i - 1 /\ EntityOf(list[i], d)

\* C11: for start < end, the list GetPosts returns is the posts of the blog
\* that match the filter (when one is given), by postId descending, without
\* the first start of them and cut after end - start, one response entity
\* per post, in that order.
C11_ListIsSortedPage ==
    [][\A p \in Procs :
          (/\ pc[p] = "Find" /\ pc'[p] = "idle" /\ out'.err = "nil"
           /\ req[p].Start < req[p].End) =>
              IsPage(out'.resp.List, req[p])]_vars

\* C12: for start <= end GetPosts returns at most end - start posts; with no
\* filter, start 0 and end 0 it returns no post and, as total, the number of
\* posts of the blog.
C12_AtMostEndMinusStart ==
    [][\A p \in Procs :
          (/\ pc[p] = "Find" /\ pc'[p] = "idle" /\ out'.err = "nil"
           /\ req[p].Start <= req[p].End) =>
              /\ Len(out'.resp.List) <= req[p].End - req[p].Start
              /\ (req[p].Filter = <<>> /\ req[p].Start = 0 /\ req[p].End = 0)
                    => /\ out'.resp.List = <<>>
                       /\ out'.resp.Total =
                              Cardinality(InBlog(req[p].BlogId))]_vars

StartsWith(s, t) == Len(s) >= Len(t) /\ SubSeq(s, 1, Len(t)) = t

EndsWith(s, t) ==
    Len(s) >= Len(t) /\ SubSeq(s, Len(s) - Len(t) + 1, Len(s)) = t

\* The translation rule for a wildcard pattern: every "%" becomes ".*", and
\* ".*" is put in front and at the end wherever it is not there already.
Normalized(pattern) ==
    LET r == ReplaceAll(pattern, "%", MatchAny) IN
    (IF StartsWith(r, MatchAny) THEN <<>> ELSE MatchAny)
        \o r
        \o (IF EndsWith(r, MatchAny) THEN <<>> ELSE MatchAny)

\* The title entry GetPosts puts into its filters for the request.
TitleFilter(request) ==
    IF impl = "server.go" THEN TitleFilter_server(request)
    ELSE TitleFilter_blogserver(request)

\* C13: the regex GetPosts builds for a non-empty filter is the filter with
\* every "%" replaced by ".*", then ".*" prepended exactly when that does not
\* start with ".*" and appended exactly when it does not end with ".*"; it
\* starts and ends with ".*".
C13_RegexIsNormalizedPattern ==
    \A p \in Procs :
        (req[p].op = "GetPosts" /\ req[p].Filter # <<>>) =>
            /\ TitleFilter(req[p]) = Normalized(req[p].Filter)
            /\ StartsWith(TitleFilter(req[p]), MatchAny)
            /\ EndsWith(TitleFilter(req[p]), MatchAny)

\* C14: a goroutine holds a connected client exactly while it is inside a
\* handler: every handler that connected has disconnected when it has
\* returned, whatever the exit path, and with no call in flight no client is
\* connected.
C14_SessionReleasedOnReturn ==
    \A p \in Procs : (p \in clients) <=> (pc[p] # "idle")

\* A handler has returned errInternal after a failed call on the collection
\* (it had connected), no call is in flight and no client is connected.
C14_Witness ==
    /\ out.err = "errInternal"
    /\ out.logged.call \in {"FindOne", "InsertOne", "CountDocuments", "Find",
                            "DeleteMany"}
    /\ \A p \in Procs : pc[p] = "idle"
    /\ clients = {}

\* C15: no CreatePost call goes on after a storage failure that is not the
\* duplicate key, and the step in which CreatePost fails returns errInternal,
\* ends the call (no further query or insert) and leaves the stored posts as
\* they were.
C15_OtherFailureEndsCreate ==
    [][/\ \A p \in Procs : err'[p] \notin Faults
       /\ (out'.op = "CreatePost" /\ out'.err # "nil") =>
             /\ out'.err = "errInternal"
             /\ out'.logged.err \in Faults
             /\ store' = store
             /\ assigned' = assigned
             /\ \A p \in Procs : Stepped(p) => pc'[p] = "idle"]_vars

\* A CreatePost call has just failed at its insert, other posts being stored.
C15_Witness ==
    /\ out.op = "CreatePost"
    /\ out.err = "errInternal"
    /\ out.logged = [call |-> "InsertOne", err |-> "Other"]
    /\ store # {}

\* C16: the stored posts change only in the step of a CreatePost that inserts
\* or of a DeletePost that deletes, never in a step of GetPost or GetPosts,
\* and a post that stays stored keeps all its fields.
C16_OnlyCreateAndDeleteMutate ==
    [][store' # store =>
          /\ \E p \in Procs :
                /\ pc[p] \in {"CreatePostStep", "DeleteMany"}
                /\ req[p].op \in {"CreatePost", "DeletePost"}
                /\ pc'[p] = "idle"
          /\ \A p \in Procs :
                Stepped(p) => {req[p].op, req'[p].op} \cap
                                  {"GetPost", "GetPosts"} = {}
          /\ \A d \in store : \A e \in store' : d._id = e._id => d = e]_vars

\* GetPosts has just returned posts and every post ever inserted is stored.
C16_Witness ==
    /\ out.op = "GetPosts"
    /\ out.err = "nil"
    /\ out.resp.List # <<>>
    /\ Cardinality(store) = nextOid - 1
    /\ Cardinality(store) >= 2

\* C17: a DeletePost that succeeds leaves exactly the stored posts whose
\* (blogId, postId) is not the request's; a CreatePost that succeeds adds
\* exactly one post, with the request's blogId, userId, title and text, and
\* leaves the others as they were.
C17_DeleteAndCreateFrame ==
    [][\A p \in Procs :
          /\ (pc[p] = "DeleteMany" /\ pc'[p] = "idle" /\ out'.err = "nil") =>
                /\ store' \subseteq store
                /\ \A d \in store :
                      d \in store' <=> ~(/\ d.blogId = req[p].BlogId
                                         /\ d.postId = req[p].PostId)
          /\ (pc[p] = "CreatePostStep" /\ pc'[p] = "idle" /\ out'.err = "nil")
                => \E d \in store' \ store :
                      /\ store' = store \cup {d}
                      /\ d.blogId = req[p].BlogId
                      /\ d.userId = req[p].UserId
                      /\ d.title = req[p].Title
                      /\ d.text = req[p].Text]_vars

\* A DeletePost has just removed one of two posts of a blog; the other post
\* of the blog and a post of another blog are stored.
C17_Witness ==
    /\ out.op = "DeletePost" /\ out.err = "nil"
    /\ \E b, c \in BlogIds :
          /\ b # c
          /\ Len(assigned[b]) = 2
          /\ Cardinality(InBlog(b)) = 1
          /\ Cardinality(InBlog(c)) = 1

\* C18: the post a successful CreatePost stored is the one stored post with
\* the blogId of the request and the postId of the response, and it carries
\* the request's userId, title and text; a stored post goes only by a
\* DeletePost of its key and keeps its fields until then; and a GetPost of a
\* stored key returns, unless the storage fails, the requested postId with
\* the userId, title and text of the stored post.
C18_CreateThenGetRoundTrip ==
    [][\A p \in Procs :
          /\ (pc[p] = "CreatePostStep" /\ pc'[p] = "idle" /\ out'.err = "nil")
                => \E d \in store' :
                      /\ Key(d) = <<req[p].BlogId, out'.resp.Id>>
                      /\ \A e \in store' : Key(e) = Key(d) => e = d
                      /\ d.userId = req[p].UserId
                      /\ d.title = req[p].Title
                      /\ d.text = req[p].Text
          /\ \A d \in store \ store' :
                \E q \in Procs :
                    /\ pc[q] = "DeleteMany"
                    /\ Key(d) = <<req[q].BlogId, req[q].PostId>>
          /\ (pc[p] = "GetPost" /\ pc'[p] = "idle" /\ Stored(req[p]) # {}) =>
                /\ out'.err \in {"nil", "errInternal"}
                /\ out'.err = "errInternal" => out'.logged.err \in Faults
                /\ out'.err = "nil" =>
                      /\ out'.resp.PostId = req[p].PostId
                      /\ \E d \in Stored(req[p]) : EntityOf(out'.resp, d)]_vars

\* The inserts other calls made into the blog of goroutine p's CreatePost
\* call since that call began.
InsertsOfOthers(p) == Len(assigned[req[p].BlogId]) - began[p]

\* C19: at every moment of a CreatePost call, the duplicate-key failures the
\* call has had so far are at most the inserts other calls have made into the
\* same blog since the call began.
C19_FailuresBoundedByOtherInserts ==
    \A p \in Procs :
        req[p].op = "CreatePost" => dups[p] <= InsertsOfOthers(p)

\* The postIds stored for the blog.
PostIds(blogId) == {d.postId : d \in InBlog(blogId)}

\* C20: with CreatePost calls alone, from the empty collection, the postIds
\* stored for a blog are exactly 1 .. n, n being the number of acknowledged
\* inserts of that blog, whatever the other blogs hold.
C20_IdsAreOneToN ==
    \A b \in BlogIds : PostIds(b) = 1..Len(assigned[b])

\* One blog holds posts 1 and 2 while another blog holds post 1.
C20_Witness ==
    \E b, c \in BlogIds :
        /\ b # c
        /\ PostIds(b) = {1, 2} /\ Len(assigned[b]) = 2
        /\ PostIds(c) = {1} /\ Len(assigned[c]) = 1

====
